---- MODULE Spec2Model ----
(***************************************************************************)
(* Model of backend/ai_agent.js: the OpenAIRealtimeSession (duplex socket  *)
(* to the speech model), the AIAgent orchestrator (capture loops and       *)
(* playback through the LiveKit AudioSource) and the AudioConverter.       *)
(*                                                                         *)
(* The JavaScript program is single threaded: every action below is one    *)
(* event-loop task (a socket event, a timer, a frame of an async iterator, *)
(* a promise settling) run to completion, including the microtasks it      *)
(* queues.  The WebSocket, the LiveKit room and the AudioSource are the    *)
(* environment; their events are nondeterministic.                         *)
(***************************************************************************)
EXTENDS Integers, Sequences, FiniteSets, TLC

\* ------------------------------------------------------------------ bounds
MaxDeltas == 3        \* response.audio.delta events delivered
MaxSendCalls == 2     \* sendAudio calls (capture loop and direct)
MaxLoops == 2         \* capture loops started by TrackSubscribed
MaxText == 1          \* transcription events delivered
MaxDisconnects == 2   \* direct OpenAIRealtimeSession.disconnect calls
MaxSamples == 4       \* samples in a converter input buffer
MaxBytes == 5         \* decoded bytes of a response.audio.delta payload
MaxMonitors == 3      \* stats intervals alive at once
MaxAttempts == 2      \* browser client: connectToRoom calls
MaxMicCalls == 2      \* browser client: enableMicrophone calls

\* ------------------------------------------------------- program constants
MAX_QUEUE_DURATION_MS == 1000
SAMPLE_RATE == 24000

Participants == {"u1", "u2"}
SessionIds == {1, 2}                 \* 0 stands for null
DeltaBytes == {24000, 72000}         \* decoded payload sizes: 500 ms, 1500 ms
DrainLevels == {0, 500, 1000}        \* queuedDuration values playout decays to
Samples == {-32768, -2, 0, 3, 258}   \* Int16 sample values
PayloadByteValues == {0, 1, 255}     \* byte values of a decoded payload
FrameRates == {48000, 16000}
CaptureData == {<<1, 2>>, <<-2, 7, 258>>}   \* Int16 samples of capture frames

VARIABLES
  ws,                  \* this.ws: "null" or "sock"
  readyState,          \* readyState of the socket made by connect()
  connected,           \* this.connected
  sessionId,           \* this.sessionId (0 = null)
  audioChunksSent, textResponsesReceived, audioChunksReceived,
  promise,             \* the promise returned by OpenAIRealtimeSession.connect
  timer,               \* the 10 s connection timer
  wire,                \* events written to the socket by ws.send, in order
  updatedSeen,         \* history: a session.updated event has been dispatched
  agentPc,             \* position of AIAgent.connect / disconnect
  room,                \* this.room: "null" or "room"
  subscribedTracks,    \* keys of this.subscribedTracks
  loops,               \* running capture loops per participant
  audioSource,         \* this.audioSource exists
  audioFramesPublished,
  calls,               \* one entry per response.audio.delta, in arrival order
  waiters,             \* playAudioInRoom calls suspended on waitForPlayout
  queuedMs,            \* audioSource.queuedDuration
  published,           \* frames handed to audioSource.captureFrame, in order
  noDrain,             \* history: the transport has drained nothing so far
  probe,               \* history: the last sendAudio call and its effect
  fire,                \* history: the session as the connection timer saw it
  cfgSid,              \* history: sessionId when session.update was written
  nCalls,              \* history: number of sendAudio calls made
  receiving,           \* the socket's receiver still delivers messages
  lastEvent,           \* history: the last error / unrecognized event dispatched
  nDisc,               \* history: OpenAIRealtimeSession.disconnect calls made
  nClose,              \* history: ws.close() calls made
  silentDrop,          \* history: a capture frame was dropped, session lost
  convIn, convRate,    \* converter input: frame.data and frame.sampleRate
  convOut,             \* converter output
  convPc,              \* "idle", "ready", "resampled", "forwarded", "decoded"
  convSent,            \* the converted frame was passed to sendAudio
  delta,               \* decoded bytes of one response.audio.delta payload
  deltaPc,             \* "idle", "ready", "handed", "waiting" or "dropped"
  frame,               \* samples of the AudioFrame built from the payload
  threw,               \* history: nCalls when a conversion error was last
                       \* caught by the capture loop, -1 if none
  monitors,            \* active stats intervals per participant identity
  clientRoom,          \* browser client: `room`, 0 = null, else the Room made
                       \* by that connectToRoom call
  roomState,           \* browser client: state of each Room object
  attemptPc,           \* browser client: position of each connectToRoom call
  elements,            \* browser client: the `disabled` flag of each button
  audioTrack,          \* browser client: audioTrack is set
  micPending,          \* browser client: enableMicrophone calls at their await
  nMic                 \* history: enableMicrophone calls made

sessionVars == <<ws, readyState, connected, sessionId, audioChunksSent,
                 textResponsesReceived, audioChunksReceived, promise, timer,
                 wire, updatedSeen>>
agentVars == <<agentPc, room, subscribedTracks, loops, audioSource>>
playVars == <<audioFramesPublished, calls, waiters, queuedMs, published, noDrain>>
histVars == <<probe, fire, cfgSid, nCalls>>
auxVars == <<receiving, lastEvent, nDisc, nClose, silentDrop>>
convVars == <<convIn, convRate, convOut, convPc, convSent, delta, deltaPc, frame>>
clientVars == <<clientRoom, roomState, attemptPc, elements, audioTrack,
                micPending, nMic>>
moreVars == <<threw, monitors, clientVars>>
vars == <<sessionVars, agentVars, playVars, histVars, auxVars, convVars,
          moreVars>>

\* --------------------------------------------------------- AudioConverter
\* mutant of resample48to24: keeps the odd-indexed samples
resample48to24_odd(inputBuffer) ==
  [i \in 1..(Len(inputBuffer) \div 2) |-> inputBuffer[2 * i]]

resample48to24(inputBuffer) ==
  [i \in 1..(Len(inputBuffer) \div 2) |-> inputBuffer[2 * (i - 1) + 1]]

\* Buffer.from(int16Array.buffer): the little-endian bytes of the samples
Int16Bytes(samples) ==
  [i \in 1..(2 * Len(samples)) |->
     LET u == (samples[(i + 1) \div 2] + 65536) % 65536
     IN  IF i % 2 = 1 THEN u % 256 ELSE u \div 256]

Pow64(k) == IF k = 0 THEN 1 ELSE IF k = 1 THEN 64 ELSE IF k = 2 THEN 4096 ELSE 262144

\* buffer.toString('base64'): sextets 0..63, 64 stands for the '=' padding
Base64(bytes) ==
  LET n == Len(bytes)
      At(i) == IF i <= n THEN bytes[i] ELSE 0
  IN  [k \in 1..(4 * ((n + 2) \div 3)) |->
         LET g == (k - 1) \div 4
             j == (k - 1) % 4
             triple == At(3 * g + 1) * 65536 + At(3 * g + 2) * 256 + At(3 * g + 3)
         IN  IF (j = 2 /\ 3 * g + 2 > n) \/ (j = 3 /\ 3 * g + 3 > n)
             THEN 64
             ELSE (triple \div Pow64(3 - j)) % 64]

convertForOpenAI(data) == Base64(Int16Bytes(resample48to24(data)))

\* Buffer.from(text, 'base64') on well-formed text: three bytes per quad,
\* less the padding
Base64Decode(text) ==
  LET n == Len(text)
      pad == Cardinality({k \in 1..n : text[k] = 64})
      Sx(k) == IF text[k] = 64 THEN 0 ELSE text[k]
  IN  [i \in 1..(3 * (n \div 4) - pad) |->
         LET g == (i - 1) \div 3
             j == (i - 1) % 3
             quad == Sx(4 * g + 1) * 262144 + Sx(4 * g + 2) * 4096
                       + Sx(4 * g + 3) * 64 + Sx(4 * g + 4)
         IN  (quad \div (IF j = 0 THEN 65536 ELSE IF j = 1 THEN 256 ELSE 1)) % 256]

\* mutant of Int16View: the byte pairs are read as unsigned
Int16View_unsigned(bytes) ==
  [i \in 1..(Len(bytes) \div 2) |-> bytes[2 * i - 1] + 256 * bytes[2 * i]]

\* new Int16Array(buffer, byteOffset, length / 2): the length is truncated
\* to an integer, each little-endian byte pair is one signed sample
Int16View(bytes) ==
  [i \in 1..(Len(bytes) \div 2) |->
     LET u == bytes[2 * i - 1] + 256 * bytes[2 * i]
     IN  IF u >= 32768 THEN u - 65536 ELSE u]

Payloads == {convertForOpenAI(d) : d \in CaptureData}

\* ------------------------------------------------------------- messages
KnownTypes == {"session.created", "session.updated",
               "input_audio_buffer.speech_started",
               "input_audio_buffer.speech_stopped",
               "input_audio_buffer.committed",
               "conversation.item.input_audio_transcription.completed",
               "response.audio_transcript.delta",
               "response.audio_transcript.done",
               "response.audio.done", "response.audio.delta",
               "response.done", "error"}

Messages ==
  [type : {"session.created"}, sid : SessionIds, bytes : {0}]
  \cup [type : (KnownTypes \ {"session.created", "response.audio.delta"})
                 \cup {"rate_limits.updated"}, sid : {0}, bytes : {0}]
  \cup [type : {"response.audio.delta"}, sid : {0}, bytes : DeltaBytes]

\* --------------------------------------------------------------- helpers
Settle(p, outcome) == IF p = "pending" THEN outcome ELSE p

HasType(w, t) == \E i \in 1..Len(w) : w[i].type = t

\* duration the AudioSource accounts for a frame of this many bytes
FrameMs(bytes) == ((bytes \div 2) * 1000) \div SAMPLE_RATE

NoProbe == [rs |-> "NONE", conn |-> FALSE, created |-> FALSE, upd |-> FALSE,
            evt |-> "none", waiting |-> 0, wrote |-> 0, sent |-> 0, arg |-> <<>>]
NoFire == [conn |-> FALSE, prom |-> "none", created |-> FALSE]
NoEvent == [type |-> "none", same |-> TRUE]

\* ---------------------------------------------------- OpenAIRealtimeSession
\* mutant of send: the event is written twice
send_twice(sock, rs, w, event) ==
  IF sock # "null" /\ rs = "OPEN" THEN Append(Append(w, event), event) ELSE w

\* mutant of send: the event is put in front of the events already written
send_front(sock, rs, w, event) ==
  IF sock # "null" /\ rs = "OPEN" THEN <<event>> \o w ELSE w

send(sock, rs, w, event) ==
  IF sock # "null" /\ rs = "OPEN" THEN Append(w, event) ELSE w

\* mutant of initializeSession: the configuration is not sent
initializeSession_skipped(sock, rs, w) == w

initializeSession(sock, rs, w) ==
  send(sock, rs, w, [type |-> "session.update", audio |-> <<>>,
                     origin |-> "session"])

\* mutant of sendAudio: the `if (!this.connected) return` guard is missing
sendAudio_unguarded(base64Audio, origin) ==
  /\ nCalls' = nCalls + 1
  /\ wire' = send(ws, readyState, wire,
                  [type |-> "input_audio_buffer.append",
                   audio |-> base64Audio, origin |-> origin])
  /\ audioChunksSent' = audioChunksSent + 1
  /\ probe' = [rs |-> readyState, conn |-> connected,
               created |-> sessionId # 0, upd |-> updatedSeen,
               evt |-> lastEvent.type, waiting |-> Len(waiters),
               wrote |-> Len(wire') - Len(wire),
               sent |-> audioChunksSent' - audioChunksSent,
               arg |-> base64Audio]

sendAudio(base64Audio, origin) ==
  /\ nCalls' = nCalls + 1
  /\ IF ~connected
     THEN /\ UNCHANGED <<wire, audioChunksSent>>
     ELSE /\ wire' = send(ws, readyState, wire,
                          [type |-> "input_audio_buffer.append",
                           audio |-> base64Audio, origin |-> origin])
          /\ audioChunksSent' = audioChunksSent + 1
  /\ probe' = [rs |-> readyState, conn |-> connected,
               created |-> sessionId # 0, upd |-> updatedSeen,
               evt |-> lastEvent.type, waiting |-> Len(waiters),
               wrote |-> Len(wire') - Len(wire),
               sent |-> audioChunksSent' - audioChunksSent,
               arg |-> base64Audio]

\* ------------------------------------------------------------- AudioSource
\* audioSource.captureFrame(frame): the frame is handed over at the call
captureFrame(st, f, waited) ==
  [q |-> st.q + FrameMs(st.calls[f].bytes),
   pub |-> Append(st.pub, [f |-> f, q |-> st.q, waited |-> waited]),
   calls |-> [st.calls EXCEPT ![f].pc = "capturing"]]

\* mutant of resumeAll: only the call suspended first is resumed
resumeAll_first(st, ws_) ==
  IF ws_ = <<>> THEN st ELSE captureFrame(st, Head(ws_), TRUE)

\* the continuations of the calls suspended on waitForPlayout, in the order
\* they suspended, all within one microtask checkpoint
RECURSIVE resumeAll(_, _)
resumeAll(st, ws_) ==
  IF ws_ = <<>> THEN st
  ELSE resumeAll(captureFrame(st, Head(ws_), TRUE), Tail(ws_))

\* mutant of NeedsWait: `>=` in place of `>`
NeedsWait_inclusive(q) == q >= MAX_QUEUE_DURATION_MS

\* `this.audioSource.queuedDuration > MAX_QUEUE_DURATION_MS`
NeedsWait(q) == q > MAX_QUEUE_DURATION_MS

\* history kept with each call: a frame had been rejected when it started
RejectedBefore == \E g \in 1..Len(calls) : calls[g].pc = "rejected"

\* AIAgent.playAudioInRoom up to its first suspension
playAudioInRoom(f, bytes) ==
  IF ~audioSource
  THEN /\ calls' = Append(calls, [bytes |-> bytes, pc |-> "dropped", q |-> queuedMs,
                                  rejBefore |-> RejectedBefore])
       /\ UNCHANGED <<waiters, queuedMs, published>>
  ELSE IF NeedsWait(queuedMs)
  THEN /\ calls' = Append(calls, [bytes |-> bytes, pc |-> "waiting", q |-> queuedMs,
                                  rejBefore |-> RejectedBefore])
       /\ waiters' = Append(waiters, f)
       /\ UNCHANGED <<queuedMs, published>>
  ELSE LET st == captureFrame([q |-> queuedMs, pub |-> published,
                               calls |-> Append(calls, [bytes |-> bytes, pc |-> "start", q |-> queuedMs,
                                                        rejBefore |-> RejectedBefore])],
                              f, FALSE)
       IN  /\ calls' = st.calls
           /\ queuedMs' = st.q
           /\ published' = st.pub
           /\ UNCHANGED waiters

\* mutant of handleError: an error event ends the session
handleError_fatal ==
  /\ connected' = FALSE
  /\ UNCHANGED <<ws, readyState>>

\* `case 'error'`: the error is logged, nothing else
handleError == UNCHANGED <<ws, readyState, connected>>

\* mutant of handleUnknown: the default case counts a text response
handleUnknown_counted ==
  /\ textResponsesReceived' = textResponsesReceived + 1
  /\ UNCHANGED <<ws, readyState, connected, sessionId, updatedSeen,
                 audioChunksReceived, calls, waiters, queuedMs, published>>

\* `default`: an event type that is not recognized
handleUnknown ==
  UNCHANGED <<ws, readyState, connected, sessionId, updatedSeen,
              textResponsesReceived, audioChunksReceived,
              calls, waiters, queuedMs, published>>

handleMessage(message) ==
  CASE message.type = "session.created" ->
         /\ sessionId' = message.sid
         /\ UNCHANGED <<ws, readyState, connected>>
         /\ UNCHANGED <<updatedSeen, textResponsesReceived, audioChunksReceived,
                        calls, waiters, queuedMs, published>>
    [] message.type = "session.updated" ->
         /\ updatedSeen' = TRUE
         /\ UNCHANGED <<ws, readyState, connected>>
         /\ UNCHANGED <<sessionId, textResponsesReceived, audioChunksReceived,
                        calls, waiters, queuedMs, published>>
    [] message.type = "conversation.item.input_audio_transcription.completed" ->
         /\ textResponsesReceived < MaxText
         /\ textResponsesReceived' = textResponsesReceived + 1
         /\ UNCHANGED <<ws, readyState, connected>>
         /\ UNCHANGED <<sessionId, updatedSeen, audioChunksReceived,
                        calls, waiters, queuedMs, published>>
    [] message.type = "response.audio.delta" ->
         /\ audioChunksReceived < MaxDeltas
         /\ audioChunksReceived' = audioChunksReceived + 1
         /\ IF audioSource
            THEN playAudioInRoom(audioChunksReceived + 1, message.bytes)
            ELSE /\ calls' = Append(calls, [bytes |-> message.bytes,
                                            pc |-> "dropped", q |-> queuedMs,
                                            rejBefore |-> RejectedBefore])
                 /\ UNCHANGED <<waiters, queuedMs, published>>
         /\ UNCHANGED <<ws, readyState, connected>>
         /\ UNCHANGED <<sessionId, updatedSeen, textResponsesReceived>>
    [] message.type = "error" ->
         /\ handleError
         /\ UNCHANGED <<sessionId, updatedSeen, textResponsesReceived,
                        audioChunksReceived, calls, waiters, queuedMs, published>>
    [] message.type \in KnownTypes \ {"session.created", "session.updated",
           "conversation.item.input_audio_transcription.completed",
           "response.audio.delta", "error"} ->
         UNCHANGED <<ws, readyState, connected, sessionId, updatedSeen,
                     textResponsesReceived, audioChunksReceived,
                     calls, waiters, queuedMs, published>>
    [] OTHER -> handleUnknown

\* history: what a dispatched event left unchanged
SameAfterEvent ==
  /\ ws' = ws /\ readyState' = readyState /\ connected' = connected
  /\ sessionId' = sessionId /\ updatedSeen' = updatedSeen
  /\ audioChunksSent' = audioChunksSent
  /\ textResponsesReceived' = textResponsesReceived
  /\ audioChunksReceived' = audioChunksReceived
  /\ wire' = wire /\ calls' = calls /\ waiters' = waiters
  /\ queuedMs' = queuedMs /\ published' = published

EventClass(t) ==
  IF t = "error" THEN "error" ELSE IF t \in KnownTypes THEN "known" ELSE "unknown"

\* ------------------------------------------------------------------ Init
InitProgram ==
  /\ ws = "null" /\ readyState = "NONE" /\ connected = FALSE /\ sessionId = 0
  /\ audioChunksSent = 0 /\ textResponsesReceived = 0 /\ audioChunksReceived = 0
  /\ promise = "none" /\ timer = "none" /\ wire = <<>> /\ updatedSeen = FALSE
  /\ agentPc = "init" /\ room = "null" /\ subscribedTracks = {}
  /\ loops = [p \in Participants |-> 0] /\ audioSource = FALSE
  /\ audioFramesPublished = 0 /\ calls = <<>> /\ waiters = <<>>
  /\ queuedMs = 0 /\ published = <<>> /\ noDrain = TRUE
  /\ probe = NoProbe /\ fire = NoFire /\ cfgSid = -1 /\ nCalls = 0
  /\ receiving = FALSE /\ lastEvent = NoEvent /\ nDisc = 0 /\ nClose = 0
  /\ silentDrop = FALSE
  /\ threw = -1 /\ monitors = [p \in Participants |-> 0]

\* browser client: module state at load and the buttons as resetUI leaves them
InitClient ==
  /\ clientRoom = 0
  /\ roomState = [a \in 1..MaxAttempts |-> "none"]
  /\ attemptPc = [a \in 1..MaxAttempts |-> "none"]
  /\ elements = [connectBtn |-> FALSE, micBtn |-> TRUE, disconnectBtn |-> TRUE]
  /\ audioTrack = FALSE
  /\ micPending = 0 /\ nMic = 0

NoDelta == delta = <<>> /\ deltaPc = "idle" /\ frame = <<>>

NoFrame ==
  /\ convIn = <<>> /\ convRate = 0 /\ convOut = <<>> /\ convPc = "idle"
  /\ convSent = FALSE

Init == InitProgram /\ NoFrame /\ NoDelta /\ InitClient

\* a capture frame as the AudioStream delivers it: frame.data, frame.sampleRate
Buffers == UNION {[1..n -> Samples] : n \in 0..MaxSamples}

InitConverter ==
  /\ InitProgram
  /\ convIn \in Buffers /\ convRate \in FrameRates
  /\ convOut = <<>> /\ convPc = "ready" /\ convSent = FALSE
  /\ NoDelta
  /\ InitClient

\* a response.audio.delta payload as the server sends it, by its decoded bytes
PayloadBytes == UNION {[1..n -> PayloadByteValues] : n \in 0..MaxBytes}

InitWire ==
  /\ InitProgram
  /\ NoFrame
  /\ delta \in PayloadBytes /\ deltaPc = "ready" /\ frame = <<>>
  /\ InitClient

\* --------------------------------------------------------------- actions
\* main -> AIAgent.connect -> OpenAIRealtimeSession.connect, up to the await
AgentConnect ==
  /\ agentPc = "init"
  /\ agentPc' = "awaitOpenAI"
  /\ ws' = "sock" /\ readyState' = "CONNECTING"
  /\ promise' = "pending" /\ timer' = "armed"
  /\ UNCHANGED <<connected, sessionId, audioChunksSent, textResponsesReceived,
                 audioChunksReceived, wire, updatedSeen>>
  /\ UNCHANGED <<room, subscribedTracks, loops, audioSource>>
  /\ UNCHANGED <<playVars, histVars>>
  /\ UNCHANGED <<auxVars, convVars, moreVars>>

\* ws.on('open')
SocketOpen ==
  /\ readyState = "CONNECTING"
  /\ readyState' = "OPEN"
  /\ connected' = TRUE
  /\ wire' = initializeSession(ws, "OPEN", wire)
  /\ cfgSid' = IF Len(wire') > Len(wire) THEN sessionId ELSE cfgSid
  /\ promise' = Settle(promise, "resolved")
  /\ UNCHANGED <<ws, sessionId, audioChunksSent, textResponsesReceived,
                 audioChunksReceived, timer, updatedSeen>>
  /\ UNCHANGED <<agentVars, playVars, probe, fire, nCalls>>
  /\ receiving' = TRUE
  /\ UNCHANGED <<lastEvent, nDisc, nClose, silentDrop, convVars, moreVars>>

\* ws.on('message') for the recognized event types other than
\* response.audio.delta and error; the server acknowledges a configuration
\* only after it was sent one
SocketMessage ==
  /\ receiving
  /\ \E m \in Messages :
       /\ m.type # "response.audio.delta"
       /\ EventClass(m.type) = "known"
       /\ m.type = "session.updated" => HasType(wire, "session.update")
       /\ handleMessage(m)
  /\ UNCHANGED <<audioChunksSent, promise, timer, wire>>
  /\ UNCHANGED <<agentVars, audioFramesPublished, noDrain, histVars>>
  /\ UNCHANGED <<auxVars, convVars, moreVars>>

\* ws.on('message') for an error event or an event of unrecognized type
SocketNotice ==
  /\ receiving
  /\ UNCHANGED <<audioChunksSent, promise, timer, wire>>
  /\ UNCHANGED <<agentVars, audioFramesPublished, noDrain, histVars>>
  /\ UNCHANGED <<receiving, nDisc, nClose, silentDrop, convVars, moreVars>>
  /\ \E m \in Messages :
       /\ EventClass(m.type) # "known"
       /\ handleMessage(m)
       /\ lastEvent' = [type |-> EventClass(m.type), same |-> SameAfterEvent]

\* ws.on('message') for a response.audio.delta event
AudioDelta ==
  /\ receiving
  /\ \E m \in Messages :
       /\ m.type = "response.audio.delta"
       /\ handleMessage(m)
  /\ UNCHANGED <<audioChunksSent, promise, timer, wire>>
  /\ UNCHANGED <<agentVars, audioFramesPublished, noDrain, histVars>>
  /\ UNCHANGED <<auxVars, convVars, moreVars>>

\* ws.on('error')
SocketError ==
  /\ readyState \in {"CONNECTING", "OPEN"}
  /\ readyState' = "CLOSING"
  /\ connected' = FALSE
  /\ promise' = Settle(promise, "rejected")
  /\ UNCHANGED <<ws, sessionId, audioChunksSent, textResponsesReceived,
                 audioChunksReceived, timer, wire, updatedSeen>>
  /\ UNCHANGED <<agentVars, playVars, histVars>>
  /\ receiving' = FALSE
  /\ UNCHANGED <<lastEvent, nDisc, nClose, silentDrop, convVars, moreVars>>

\* the peer starts the closing handshake: no handler runs yet
PeerClosing ==
  /\ readyState = "OPEN"
  /\ readyState' = "CLOSING"
  /\ UNCHANGED <<ws, connected, sessionId, audioChunksSent, textResponsesReceived,
                 audioChunksReceived, promise, timer, wire, updatedSeen>>
  /\ UNCHANGED <<agentVars, playVars, histVars>>
  /\ receiving' = FALSE
  /\ UNCHANGED <<lastEvent, nDisc, nClose, silentDrop, convVars, moreVars>>

\* ws.on('close')
SocketClose ==
  /\ readyState \in {"OPEN", "CLOSING"}
  /\ readyState' = "CLOSED"
  /\ connected' = FALSE
  /\ UNCHANGED <<ws, sessionId, audioChunksSent, textResponsesReceived,
                 audioChunksReceived, promise, timer, wire, updatedSeen>>
  /\ UNCHANGED <<agentVars, playVars, histVars>>
  /\ receiving' = FALSE
  /\ UNCHANGED <<lastEvent, nDisc, nClose, silentDrop, convVars, moreVars>>

\* mutant of onTimeout: the timer never rejects
onTimeout_ignored(p) == p

\* mutant of onTimeout: the rejection overrides an outcome already delivered
onTimeout_overrides(p) == IF ~connected THEN "rejected" ELSE p

\* the setTimeout callback of connect()
onTimeout(p) == IF ~connected THEN Settle(p, "rejected") ELSE p

ConnectTimeout ==
  /\ timer = "armed"
  /\ timer' = "fired"
  /\ promise' = onTimeout(promise)
  /\ fire' = [conn |-> connected, prom |-> promise, created |-> sessionId # 0]
  /\ UNCHANGED <<ws, readyState, connected, sessionId, audioChunksSent,
                 textResponsesReceived, audioChunksReceived, wire, updatedSeen>>
  /\ UNCHANGED <<agentVars, playVars, probe, cfgSid, nCalls>>
  /\ UNCHANGED <<auxVars, convVars, moreVars>>

\* mutant of afterOpenAI: openai.connect() is not awaited
afterOpenAI_unawaited(p) == TRUE

\* AIAgent.connect after `await this.openai.connect()` resolved:
\* token, new Room(), setupEventListeners(), room.connect() started
afterOpenAI(p) == p = "resolved"

AgentRoom ==
  /\ agentPc = "awaitOpenAI"
  /\ afterOpenAI(promise)
  /\ agentPc' = "roomConnecting"
  /\ room' = "room"
  /\ UNCHANGED <<subscribedTracks, loops, audioSource>>
  /\ UNCHANGED <<sessionVars, playVars, histVars>>
  /\ UNCHANGED <<auxVars, convVars, moreVars>>

\* AIAgent.connect catch block: rethrow, main() exits the process
AgentConnectFailed ==
  /\ \/ agentPc = "awaitOpenAI" /\ promise = "rejected"
     \/ agentPc \in {"roomConnecting", "publishing"}
  /\ agentPc' = "exited"
  /\ UNCHANGED <<room, subscribedTracks, loops, audioSource>>
  /\ UNCHANGED <<sessionVars, playVars, histVars>>
  /\ UNCHANGED <<auxVars, convVars, moreVars>>

\* room.connect() resolved; the 1000 ms discovery wait starts
RoomConnected ==
  /\ agentPc = "roomConnecting"
  /\ agentPc' = "discoverWait"
  /\ UNCHANGED <<room, subscribedTracks, loops, audioSource>>
  /\ UNCHANGED <<sessionVars, playVars, histVars>>
  /\ UNCHANGED <<auxVars, convVars, moreVars>>

\* setupAudioPublishing up to `await publishTrack`
SetupAudioPublishing ==
  /\ agentPc = "discoverWait"
  /\ agentPc' = "publishing"
  /\ audioSource' = TRUE
  /\ UNCHANGED <<room, subscribedTracks, loops>>
  /\ UNCHANGED <<sessionVars, playVars, histVars>>
  /\ UNCHANGED <<auxVars, convVars, moreVars>>

\* publishTrack resolved: connect() returns true, main installs SIGINT/SIGTERM
PublishDone ==
  /\ agentPc = "publishing"
  /\ agentPc' = "running"
  /\ UNCHANGED <<room, subscribedTracks, loops, audioSource>>
  /\ UNCHANGED <<sessionVars, playVars, histVars>>
  /\ UNCHANGED <<auxVars, convVars, moreVars>>

RECURSIVE SumOver(_, _)
SumOver(f, S) ==
  IF S = {} THEN 0
  ELSE LET x == CHOOSE y \in S : TRUE IN f[x] + SumOver(f, S \ {x})

TotalLoops == SumOver(loops, Participants)

\* RoomEvent.TrackSubscribed for an audio track -> handleAudioTrack
TrackSubscribed(p) ==
  /\ room = "room"
  /\ agentPc \in {"roomConnecting", "discoverWait", "publishing", "running"}
  /\ TotalLoops < MaxLoops
  /\ SumOver(monitors, Participants) < MaxMonitors
  /\ subscribedTracks' = subscribedTracks \cup {p}
  /\ loops' = [loops EXCEPT ![p] = @ + 1]
  /\ monitors' = [monitors EXCEPT ![p] = @ + 1]
  /\ UNCHANGED <<agentPc, room, audioSource>>
  /\ UNCHANGED <<sessionVars, playVars, histVars>>
  /\ UNCHANGED <<auxVars, convVars, threw, clientVars>>

\* mutant of captureReady: the loop takes a frame only when no
\* playAudioInRoom call is suspended
captureReady_gated(p) == loops[p] > 0 /\ waiters = <<>>

\* the loop of participant p is at its `for await`: the body awaits nothing,
\* so the next frame the stream yields is taken
captureReady(p) == loops[p] > 0

\* one iteration of `for await (const frame of audioStream)`
CaptureLoop(p, data) ==
  /\ captureReady(p)
  /\ nCalls < MaxSendCalls
  /\ IF connected
     THEN sendAudio(convertForOpenAI(data), "capture")
     ELSE UNCHANGED <<wire, audioChunksSent, probe, nCalls>>
  /\ silentDrop' = (silentDrop \/ (~connected /\ ws # "null" /\ promise = "resolved"))
  /\ UNCHANGED <<ws, readyState, connected, sessionId, textResponsesReceived,
                 audioChunksReceived, promise, timer, updatedSeen>>
  /\ UNCHANGED <<agentVars, playVars, fire, cfgSid>>
  /\ UNCHANGED <<receiving, lastEvent, nDisc, nClose, convVars, moreVars>>

\* mutant of catchConversionError: the error escapes to the outer catch
\* of the async iterator, which ends the loop
catchConversionError_uncaught(p) == [loops EXCEPT ![p] = @ - 1]

\* the inner catch of the capture loop: the error is logged and the
\* for-await loop goes on
catchConversionError(p) == loops

\* one iteration of the capture loop for a frame whose conversion throws
CaptureThrow(p) ==
  /\ captureReady(p)
  /\ connected
  /\ threw' = nCalls
  /\ loops' = catchConversionError(p)
  /\ UNCHANGED <<agentPc, room, subscribedTracks, audioSource>>
  /\ UNCHANGED <<sessionVars, playVars, histVars>>
  /\ UNCHANGED <<auxVars, convVars, monitors, clientVars>>

\* RoomEvent.TrackUnsubscribed; the AudioStream of the track may end
TrackUnsubscribed(p, ended) ==
  /\ room = "room"
  /\ p \in subscribedTracks
  /\ subscribedTracks' = subscribedTracks \ {p}
  /\ loops' = IF ended /\ loops[p] > 0
              THEN [loops EXCEPT ![p] = @ - 1] ELSE loops
  /\ UNCHANGED <<agentPc, room, audioSource>>
  /\ UNCHANGED <<sessionVars, playVars, histVars>>
  /\ UNCHANGED <<auxVars, convVars, moreVars>>

\* RoomEvent.ParticipantDisconnected
ParticipantDisconnected(p) ==
  /\ room = "room"
  /\ agentPc \in {"discoverWait", "publishing", "running"}
  /\ subscribedTracks' = subscribedTracks \ {p}
  /\ UNCHANGED <<agentPc, room, loops, audioSource>>
  /\ UNCHANGED <<sessionVars, playVars, histVars>>
  /\ UNCHANGED <<auxVars, convVars, moreVars>>

\* one tick of a stats interval started by handleAudioTrack for p
MonitorTick(p) ==
  /\ monitors[p] > 0
  /\ monitors' = IF p \notin subscribedTracks
                 THEN [monitors EXCEPT ![p] = @ - 1]
                 ELSE monitors
  /\ UNCHANGED <<sessionVars, agentVars, playVars, histVars>>
  /\ UNCHANGED <<auxVars, convVars, threw, clientVars>>

\* OpenAIRealtimeSession.sendAudio called directly
SendAudioCall(x) ==
  /\ nCalls < MaxSendCalls
  /\ sendAudio(x, "direct")
  /\ UNCHANGED <<ws, readyState, connected, sessionId, textResponsesReceived,
                 audioChunksReceived, promise, timer, updatedSeen>>
  /\ UNCHANGED <<agentVars, playVars, fire, cfgSid>>
  /\ UNCHANGED <<auxVars, convVars, moreVars>>

\* time passes: the AudioSource plays out part of its queue
Drain ==
  /\ audioSource
  /\ \E q \in DrainLevels :
       /\ q < queuedMs
       /\ queuedMs' = q
  /\ noDrain' = FALSE
  /\ UNCHANGED <<audioFramesPublished, calls, waiters, published>>
  /\ UNCHANGED <<sessionVars, agentVars, histVars>>
  /\ UNCHANGED <<auxVars, convVars, moreVars>>

\* the queue has played out: every waitForPlayout() promise resolves and the
\* suspended playAudioInRoom calls continue to captureFrame
Playout ==
  /\ waiters # <<>>
  /\ queuedMs = 0
  /\ LET st == resumeAll([q |-> 0, pub |-> published, calls |-> calls], waiters)
     IN  /\ queuedMs' = st.q
         /\ published' = st.pub
         /\ calls' = st.calls
  /\ waiters' = <<>>
  /\ UNCHANGED <<audioFramesPublished, noDrain>>
  /\ UNCHANGED <<sessionVars, agentVars, histVars>>
  /\ UNCHANGED <<auxVars, convVars, moreVars>>

\* mutant of catchPublishError: the rejection escapes playAudioInRoom, an
\* unhandled rejection that ends the process
catchPublishError_uncaught == agentPc' = "crashed"

\* the catch block of playAudioInRoom: "Don't throw - just log and continue"
catchPublishError == agentPc' = agentPc

\* mutant of CaptureSettled: the frame is counted whether or not
\* captureFrame succeeded
CaptureSettled_countsAll(f, ok) ==
  /\ f \in 1..Len(calls)
  /\ calls[f].pc = "capturing"
  /\ calls' = [calls EXCEPT ![f].pc = IF ok THEN "done" ELSE "rejected"]
  /\ audioFramesPublished' = audioFramesPublished + 1
  /\ agentPc' = agentPc
  /\ UNCHANGED <<waiters, queuedMs, published, noDrain>>
  /\ UNCHANGED <<room, subscribedTracks, loops, audioSource>>
  /\ UNCHANGED <<sessionVars, histVars>>
  /\ UNCHANGED <<auxVars, convVars, moreVars>>

\* `await this.audioSource.captureFrame(audioFrame)` settles
CaptureSettled(f, ok) ==
  /\ f \in 1..Len(calls)
  /\ calls[f].pc = "capturing"
  /\ IF ok
     THEN /\ calls' = [calls EXCEPT ![f].pc = "done"]
          /\ audioFramesPublished' = audioFramesPublished + 1
          /\ agentPc' = agentPc
     ELSE /\ calls' = [calls EXCEPT ![f].pc = "rejected"]
          /\ catchPublishError
          /\ UNCHANGED audioFramesPublished
  /\ UNCHANGED <<waiters, queuedMs, published, noDrain>>
  /\ UNCHANGED <<room, subscribedTracks, loops, audioSource>>
  /\ UNCHANGED <<sessionVars, histVars>>
  /\ UNCHANGED <<auxVars, convVars, moreVars>>

\* mutant of disconnect: the `if (this.ws)` guard is missing
disconnect_unguarded ==
  /\ nDisc' = nDisc + 1
  /\ ws' = "null"
  /\ connected' = FALSE
  /\ readyState' = IF readyState \in {"CONNECTING", "OPEN"}
                   THEN "CLOSING" ELSE readyState
  /\ nClose' = nClose + 1

\* mutant of disconnect: the connected flag is left as it was
disconnect_keepsFlag ==
  /\ nDisc' = nDisc + 1
  /\ IF ws # "null"
     THEN /\ ws' = "null"
          /\ connected' = connected
          /\ readyState' = IF readyState \in {"CONNECTING", "OPEN"}
                           THEN "CLOSING" ELSE readyState
          /\ nClose' = nClose + 1
     ELSE UNCHANGED <<ws, connected, readyState, nClose>>

\* OpenAIRealtimeSession.disconnect
disconnect ==
  /\ nDisc' = nDisc + 1
  /\ IF ws # "null"
     THEN /\ ws' = "null"
          /\ connected' = FALSE
          /\ readyState' = IF readyState \in {"CONNECTING", "OPEN"}
                           THEN "CLOSING" ELSE readyState
          /\ nClose' = nClose + 1
     ELSE UNCHANGED <<ws, connected, readyState, nClose>>

\* SIGINT/SIGTERM -> AIAgent.disconnect up to `await this.room.disconnect()`
AgentDisconnect ==
  /\ agentPc = "running"
  /\ disconnect
  /\ agentPc' = "disconnecting"
  /\ UNCHANGED <<sessionId, audioChunksSent, textResponsesReceived,
                 audioChunksReceived, promise, timer, wire, updatedSeen>>
  /\ UNCHANGED <<room, subscribedTracks, loops, audioSource>>
  /\ UNCHANGED <<playVars, histVars>>
  /\ UNCHANGED <<receiving, lastEvent, silentDrop, convVars, moreVars>>

\* OpenAIRealtimeSession.disconnect called directly
DisconnectCall ==
  /\ nDisc < MaxDisconnects
  /\ disconnect
  /\ UNCHANGED <<sessionId, audioChunksSent, textResponsesReceived,
                 audioChunksReceived, promise, timer, wire, updatedSeen>>
  /\ UNCHANGED <<agentVars, playVars, histVars>>
  /\ UNCHANGED <<receiving, lastEvent, silentDrop, convVars, moreVars>>

\* room.disconnect() resolved; the handler calls process.exit(0)
AgentDisconnected ==
  /\ agentPc = "disconnecting"
  /\ agentPc' = "exited"
  /\ room' = "null"
  /\ subscribedTracks' = {}
  /\ UNCHANGED <<loops, audioSource>>
  /\ UNCHANGED <<sessionVars, playVars, histVars>>
  /\ UNCHANGED <<auxVars, convVars, moreVars>>

Running == agentPc \notin {"exited", "crashed"}

\* the session, the startup sequence and the capture direction
NextSession ==
  \/ AgentConnect
  \/ Running /\ SocketOpen
  \/ Running /\ SocketMessage
  \/ Running /\ SocketError
  \/ Running /\ PeerClosing
  \/ Running /\ SocketClose
  \/ Running /\ ConnectTimeout
  \/ AgentRoom
  \/ AgentConnectFailed
  \/ RoomConnected
  \/ SetupAudioPublishing
  \/ PublishDone
  \/ Running /\ \E p \in Participants : TrackSubscribed(p)
  \/ Running /\ \E p \in Participants, d \in CaptureData : CaptureLoop(p, d)
  \/ Running /\ \E x \in Payloads : SendAudioCall(x)
  \/ AgentDisconnect
  \/ AgentDisconnected

SpecSession == Init /\ [][NextSession]_vars

\* the startup sequence and the playback direction
NextPlayback ==
  \/ AgentConnect
  \/ SocketOpen
  \/ AgentRoom
  \/ RoomConnected
  \/ SetupAudioPublishing
  \/ PublishDone
  \/ Running /\ AudioDelta
  \/ Running /\ Drain
  \/ Running /\ Playout
  \/ Running /\ \E f \in 1..MaxDeltas, ok \in BOOLEAN : CaptureSettled(f, ok)
  \/ AgentDisconnect
  \/ AgentDisconnected

SpecPlayback == Init /\ [][NextPlayback]_vars

\* playback while the process runs and the transport makes progress: the
\* queue plays out, waitForPlayout and captureFrame promises settle
NextEnqueue ==
  \/ AgentConnect
  \/ SocketOpen
  \/ AgentRoom
  \/ RoomConnected
  \/ SetupAudioPublishing
  \/ PublishDone
  \/ AudioDelta
  \/ Drain
  \/ Playout
  \/ \E f \in 1..MaxDeltas, ok \in BOOLEAN : CaptureSettled(f, ok)

SpecEnqueueLive ==
  /\ Init /\ [][NextEnqueue]_vars
  /\ WF_vars(Drain)
  /\ WF_vars(Playout)
  /\ WF_vars(\E f \in 1..MaxDeltas, ok \in BOOLEAN : CaptureSettled(f, ok))

\* the session object on its own: connect, events, sendAudio, disconnect
NextClose ==
  \/ AgentConnect
  \/ SocketOpen
  \/ SocketMessage
  \/ SocketNotice
  \/ SocketError
  \/ PeerClosing
  \/ SocketClose
  \/ ConnectTimeout
  \/ \E x \in Payloads : SendAudioCall(x)
  \/ DisconnectCall

SpecClose == Init /\ [][NextClose]_vars

\* connect() with its timer: setTimeout always runs its callback
NextConnect ==
  \/ AgentConnect
  \/ SocketOpen
  \/ SocketMessage
  \/ SocketError
  \/ PeerClosing
  \/ SocketClose
  \/ ConnectTimeout
  \/ DisconnectCall

SpecConnectLive == Init /\ [][NextConnect]_vars /\ WF_vars(ConnectTimeout)

\* AudioConverter.resample48to24 applied to the frame's samples
Resample ==
  /\ convPc = "ready"
  /\ convOut' = resample48to24(convIn)
  /\ convPc' = "resampled"
  /\ UNCHANGED <<convIn, convRate, convSent, delta, deltaPc, frame>>
  /\ UNCHANGED moreVars
  /\ UNCHANGED <<sessionVars, agentVars, playVars, histVars, auxVars>>

\* the body of the frame loop for the frame: convert and send when connected
ForwardFrame ==
  /\ convPc = "ready"
  /\ IF connected
     THEN /\ sendAudio(convertForOpenAI(convIn), "capture")
          /\ convOut' = resample48to24(convIn)
          /\ convSent' = (Len(wire') > Len(wire))
     ELSE /\ UNCHANGED <<wire, audioChunksSent, probe, nCalls>>
          /\ convOut' = <<>>
          /\ convSent' = FALSE
  /\ convPc' = "forwarded"
  /\ UNCHANGED <<convIn, convRate, delta, deltaPc, frame>>
  /\ UNCHANGED moreVars
  /\ UNCHANGED <<ws, readyState, connected, sessionId, textResponsesReceived,
                 audioChunksReceived, promise, timer, updatedSeen>>
  /\ UNCHANGED <<agentVars, playVars, fire, cfgSid, auxVars>>

\* the samples encoded as convertForOpenAI encodes its resampled buffer,
\* then decoded as the response.audio.delta path decodes a payload
RoundTrip ==
  /\ convPc = "ready"
  /\ convOut' = Int16View(Base64Decode(Base64(Int16Bytes(convIn))))
  /\ convPc' = "decoded"
  /\ UNCHANGED <<convIn, convRate, convSent, delta, deltaPc, frame>>
  /\ UNCHANGED moreVars
  /\ UNCHANGED <<sessionVars, agentVars, playVars, histVars, auxVars>>

\* the converter on frames of every length and rate
NextConverter ==
  \/ AgentConnect
  \/ SocketOpen
  \/ Resample
  \/ ForwardFrame
  \/ RoundTrip

SpecConverter == InitConverter /\ [][NextConverter]_vars

\* ws.on('message') for the response.audio.delta event that carries the
\* payload: decode, count, playAudioInRoom up to its first suspension
PayloadDelta ==
  /\ receiving
  /\ deltaPc = "ready"
  /\ LET pcm16Buffer == Base64Decode(Base64(delta))
     IN  /\ handleMessage([type |-> "response.audio.delta", sid |-> 0,
                           bytes |-> Len(pcm16Buffer)])
         /\ IF Len(published') > Len(published)
            THEN frame' = Int16View(pcm16Buffer) /\ deltaPc' = "handed"
            ELSE frame' = <<>> /\
                 deltaPc' = IF audioSource THEN "waiting" ELSE "dropped"
  /\ UNCHANGED <<audioChunksSent, promise, timer, wire>>
  /\ UNCHANGED <<agentVars, audioFramesPublished, noDrain, histVars>>
  /\ UNCHANGED <<auxVars, convIn, convRate, convOut, convPc, convSent, delta>>
  /\ UNCHANGED moreVars

\* the playback path on payloads of every length
NextWire ==
  \/ AgentConnect
  \/ SocketOpen
  \/ AgentRoom
  \/ RoomConnected
  \/ SetupAudioPublishing
  \/ PublishDone
  \/ PayloadDelta
  \/ \E f \in 1..MaxDeltas, ok \in BOOLEAN : CaptureSettled(f, ok)

SpecWire == InitWire /\ [][NextWire]_vars

\* both directions at once: capture loops and playback
NextDuplex ==
  \/ AgentConnect
  \/ SocketOpen
  \/ AgentRoom
  \/ RoomConnected
  \/ SetupAudioPublishing
  \/ PublishDone
  \/ \E p \in Participants : TrackSubscribed(p)
  \/ \E p \in Participants, d \in CaptureData : CaptureLoop(p, d)
  \/ AudioDelta
  \/ Drain
  \/ Playout

SpecDuplex == Init /\ [][NextDuplex]_vars

\* ---- browser client (frontend/main.js) ----

serverVars == <<sessionVars, agentVars, playVars, histVars, auxVars, convVars,
                threw, monitors>>

\* the `disabled` flags resetUI assigns
resetUI == [connectBtn |-> FALSE, micBtn |-> TRUE, disconnectBtn |-> TRUE]

\* the connectToRoom calls not yet made; calls are numbered in order
NextAttempt == {a \in 1..MaxAttempts :
                 attemptPc[a] = "none"
                   /\ \A b \in 1..MaxAttempts : b < a => attemptPc[b] # "none"}

\* click on connectBtn: connectToRoom up to `await getToken(...)`
ClickConnect(a) ==
  /\ ~elements.connectBtn
  /\ a \in NextAttempt
  /\ elements' = [elements EXCEPT !.connectBtn = TRUE]
  /\ attemptPc' = [attemptPc EXCEPT ![a] = "token"]
  /\ UNCHANGED <<clientRoom, roomState, audioTrack, micPending, nMic>>
  /\ UNCHANGED serverVars

\* getToken settles: new Room(), setupRoomEventListeners(), room.connect()
\* started, or the catch block
TokenSettled(a, ok) ==
  /\ attemptPc[a] = "token"
  /\ IF ok
     THEN /\ clientRoom' = a
          /\ roomState' = [roomState EXCEPT ![a] = "connecting"]
          /\ attemptPc' = [attemptPc EXCEPT ![a] = "connecting"]
          /\ UNCHANGED elements
     ELSE /\ elements' = [elements EXCEPT !.connectBtn = FALSE]
          /\ attemptPc' = [attemptPc EXCEPT ![a] = "failed"]
          /\ UNCHANGED <<clientRoom, roomState>>
  /\ UNCHANGED <<audioTrack, micPending, nMic>>
  /\ UNCHANGED serverVars

\* `await room.connect(...)` of call a settles. Resolved: the buttons are
\* enabled, then `room.localParticipant` is read from the global, which
\* throws into the catch block when room is null. Rejected: the Room may
\* emit Disconnected before the catch block runs.
ConnectSettled(a, ok, emits) ==
  /\ attemptPc[a] = "connecting"
  /\ ok => (roomState[a] = "connecting" /\ ~emits)
  /\ IF ok
     THEN /\ roomState' = [roomState EXCEPT ![a] = "connected"]
          /\ elements' = [connectBtn |-> IF clientRoom = 0 THEN FALSE
                                          ELSE elements.connectBtn,
                          micBtn |-> FALSE, disconnectBtn |-> FALSE]
          /\ attemptPc' = [attemptPc EXCEPT
                             ![a] = IF clientRoom = 0 THEN "failed" ELSE "done"]
          /\ UNCHANGED audioTrack
     ELSE /\ roomState' = [roomState EXCEPT ![a] = "closed"]
          /\ elements' = [(IF emits THEN resetUI ELSE elements)
                            EXCEPT !.connectBtn = FALSE]
          /\ audioTrack' = IF emits THEN FALSE ELSE audioTrack
          /\ attemptPc' = [attemptPc EXCEPT ![a] = "failed"]
  /\ UNCHANGED <<clientRoom, micPending, nMic>>
  /\ UNCHANGED serverVars

\* click on micBtn: enableMicrophone up to `await setMicrophoneEnabled(true)`;
\* with room null the read of room.localParticipant throws into the catch
ClickMic ==
  /\ ~elements.micBtn
  /\ nMic < MaxMicCalls
  /\ nMic' = nMic + 1
  /\ IF clientRoom = 0
     THEN /\ elements' = [elements EXCEPT !.micBtn = FALSE]
          /\ UNCHANGED micPending
     ELSE /\ elements' = [elements EXCEPT !.micBtn = TRUE]
          /\ micPending' = micPending + 1
  /\ UNCHANGED <<clientRoom, roomState, attemptPc, audioTrack>>
  /\ UNCHANGED serverVars

\* setMicrophoneEnabled(true) settles: every path of enableMicrophone after
\* the await ends with micBtn.disabled = false
MicSettled(outcome) ==
  /\ micPending > 0
  /\ micPending' = micPending - 1
  /\ elements' = [elements EXCEPT !.micBtn = FALSE]
  /\ audioTrack' = IF outcome = "rejected" \/ clientRoom = 0 THEN audioTrack
                   ELSE outcome = "track"
  /\ UNCHANGED <<clientRoom, roomState, attemptPc, nMic>>
  /\ UNCHANGED serverVars

\* click on disconnectBtn: disconnect(); room.disconnect() is not awaited
ClickDisconnect ==
  /\ ~elements.disconnectBtn
  /\ IF clientRoom # 0
     THEN /\ roomState' = [roomState EXCEPT ![clientRoom] =
                             IF @ = "connected" THEN "closing"
                             ELSE IF @ = "connecting" THEN "aborted" ELSE @]
          /\ clientRoom' = 0
     ELSE UNCHANGED <<clientRoom, roomState>>
  /\ elements' = resetUI
  /\ audioTrack' = FALSE
  /\ UNCHANGED <<attemptPc, micPending, nMic>>
  /\ UNCHANGED serverVars

\* RoomEvent.Disconnected of the Room made by call a: the server dropped a
\* connected Room, or a disconnect() started earlier completes
DisconnectedEvent(a) ==
  /\ roomState[a] \in {"connected", "closing"}
  /\ roomState' = [roomState EXCEPT ![a] = "closed"]
  /\ elements' = resetUI
  /\ audioTrack' = FALSE
  /\ UNCHANGED <<clientRoom, attemptPc, micPending, nMic>>
  /\ UNCHANGED serverVars

NextClient ==
  \/ \E a \in 1..MaxAttempts : ClickConnect(a)
  \/ \E a \in 1..MaxAttempts, ok \in BOOLEAN : TokenSettled(a, ok)
  \/ \E a \in 1..MaxAttempts, ok \in BOOLEAN, emits \in BOOLEAN :
       ConnectSettled(a, ok, emits)
  \/ ClickMic
  \/ \E outcome \in {"rejected", "track", "notrack"} : MicSettled(outcome)
  \/ ClickDisconnect
  \/ \E a \in 1..MaxAttempts : DisconnectedEvent(a)

SpecClient == Init /\ [][NextClient]_vars

\* the capture loop with frames whose conversion throws
NextCapture ==
  \/ AgentConnect
  \/ SocketOpen
  \/ SocketClose
  \/ AgentRoom
  \/ RoomConnected
  \/ SetupAudioPublishing
  \/ PublishDone
  \/ \E p \in Participants : TrackSubscribed(p)
  \/ \E p \in Participants, d \in CaptureData : CaptureLoop(p, d)
  \/ \E p \in Participants : CaptureThrow(p)

SpecCapture == Init /\ [][NextCapture]_vars

\* subscriptions and the stats intervals
NextMonitor ==
  \/ AgentConnect
  \/ SocketOpen
  \/ AgentRoom
  \/ RoomConnected
  \/ SetupAudioPublishing
  \/ PublishDone
  \/ \E p \in Participants : TrackSubscribed(p)
  \/ \E p \in Participants, ended \in BOOLEAN : TrackUnsubscribed(p, ended)
  \/ \E p \in Participants : ParticipantDisconnected(p)
  \/ \E p \in Participants : MonitorTick(p)

SpecMonitor == Init /\ [][NextMonitor]_vars

Next ==
  NextSession \/ NextPlayback \/ NextClose \/ NextConverter \/ NextWire
    \/ NextDuplex \/ NextCapture \/ NextMonitor \/ NextClient

Spec == Init /\ [][Next]_vars

\* ------------------------------------------------------------ properties
NumOfType(w, t) == Cardinality({i \in 1..Len(w) : w[i].type = t})

PubFrames == {published[i].f : i \in 1..Len(published)}

WaitingFrames == {waiters[i] : i \in 1..Len(waiters)}

\* C1: frames are handed to audioSource.captureFrame in the order their
\* response.audio.delta events arrived, and no frame is handed over while an
\* earlier one is still suspended on waitForPlayout.
C1_PlaybackOrder ==
  /\ \A i, j \in 1..Len(published) : i < j => published[i].f < published[j].f
  /\ \A f \in PubFrames, w \in WaitingFrames : f < w

\* C2: with nothing drained, the third of three 500 ms frames is handed to
\* the transport only after it was suspended on waitForPlayout and resumed.
C2_ThirdFrameWaits ==
  ( /\ noDrain
    /\ Len(published) >= 3
    /\ \A i \in 1..3 : published[i].f = i /\ FrameMs(calls[i].bytes) = 500 )
  => published[3].waited

\* C2 (amended): an enqueue is suspended exactly when it finds more than
\* 1000 ms queued; with nothing drained three 500 ms frames find 0, 500 and
\* 1000 ms and are all handed over at once, and a suspended frame is not
\* handed over before waitForPlayout resolves.
C2_WaitsOnlyAboveWatermark ==
  /\ \A f \in 1..Len(calls) :
       calls[f].pc = "waiting" =>
         /\ calls[f].q > MAX_QUEUE_DURATION_MS
         /\ f \in WaitingFrames
         /\ f \notin PubFrames
  /\ \A i \in 1..Len(published) :
       published[i].waited <=> calls[published[i].f].q > MAX_QUEUE_DURATION_MS
  /\ ( /\ noDrain
       /\ Len(calls) >= 3
       /\ \A f \in 1..3 : calls[f].pc # "dropped" /\ FrameMs(calls[f].bytes) = 500 )
     => /\ Len(published) >= 3
        /\ \A i \in 1..3 :
             published[i] = [f |-> i, q |-> 500 * (i - 1), waited |-> FALSE]

C2_Witness ==
  /\ noDrain
  /\ Len(published) = 3
  /\ \A i \in 1..3 : published[i].f = i /\ FrameMs(calls[i].bytes) = 500
  /\ ~published[3].waited
  /\ queuedMs = 1500

\* C3: every frame is handed to the transport at a moment when the queued
\* duration is at most the watermark.
C3_AdmittedAtOrBelowWatermark ==
  \A i \in 1..Len(published) : published[i].q <= MAX_QUEUE_DURATION_MS

\* C4: an input_audio_buffer.append event is on the socket only if
\* session.created and session.updated have been received.
C4_AppendOnlyWhenConfigured ==
  HasType(wire, "input_audio_buffer.append") => (sessionId # 0 /\ updatedSeen)

\* C5: a sendAudio call made while the socket is still connecting writes no
\* event and leaves audioChunksSent unchanged; nothing is on the socket and
\* nothing is counted as long as the socket has not opened.
C5_ConnectingIsNoOp ==
  /\ probe.rs = "CONNECTING" => (probe.wrote = 0 /\ probe.sent = 0)
  /\ readyState = "CONNECTING" => (wire = <<>> /\ audioChunksSent = 0)

C5_Witness ==
  /\ nCalls > 0
  /\ probe.rs = "CONNECTING"
  /\ readyState = "CONNECTING"

Handshaken(pr) == pr.rs = "OPEN" /\ pr.conn /\ pr.created /\ pr.upd

C7_CaptureAfterConfigured ==
  /\ \A i \in 1..Len(wire) :
       wire[i].origin = "capture" => (sessionId # 0 /\ updatedSeen)
  /\ room = "room" => (sessionId # 0 /\ updatedSeen)

\* C8: no response.audio.delta is discarded because the playback sink does
\* not exist yet.
C8_NoDeltaDiscarded ==
  \A f \in 1..Len(calls) : calls[f].pc # "dropped"

\* C9: session.update is on the socket only after session.created has been
\* received.
C9_ConfigAfterCreated ==
  HasType(wire, "session.update") => sessionId # 0

\* C9 (amended): session.update is written by the open handler: never before
\* the socket opened, as the first outbound event once it has, exactly once,
\* and at a moment when no session.created has been received yet.
C9_ConfigOnOpen ==
  /\ readyState \in {"NONE", "CONNECTING"} => wire = <<>>
  /\ connected => (wire # <<>> /\ wire[1].type = "session.update")
  /\ NumOfType(wire, "session.update") <= 1
  /\ HasType(wire, "session.update") <=> cfgSid = 0
  /\ cfgSid \in {-1, 0}

C9_Witness ==
  /\ HasType(wire, "session.update")
  /\ cfgSid = 0
  /\ sessionId # 0

TimedOut == timer = "fired" /\ ~fire.conn

\* the socket failed: timeout, 'error' handler, or 'close' handler has run
SessionFailed ==
  \/ TimedOut
  \/ readyState = "CLOSED"
  \/ readyState = "CLOSING" /\ ~receiving /\ ~connected /\ ws # "null"

\* disconnect() has closed the socket of this session
SessionClosed == ws = "null" /\ nClose > 0

Appends(w) == NumOfType(w, "input_audio_buffer.append")

CaptureEvents(w) == Cardinality({i \in 1..Len(w) : w[i].origin = "capture"})

\* C11: once the session has failed (timeout, socket error or socket close)
\* no step writes another input_audio_buffer.append event to the socket.
C11_FailedIsTerminal ==
  [][SessionFailed => Appends(wire') = Appends(wire)]_vars

\* C12: the agent never drops a capture frame because the socket errored or
\* closed after connect() resolved while it keeps running the conversation.
C12_FailureReachesAgent ==
  ~silentDrop

\* C13: an error event dispatched by handleMessage leaves the session as it
\* was (socket, connected flag, counters), and a sendAudio call that follows
\* it on the handshaken open socket writes exactly one append event.
C13_ErrorEventNonFatal ==
  /\ lastEvent.type = "error" => lastEvent.same
  /\ (probe.evt = "error" /\ Handshaken(probe)) =>
       /\ probe.wrote = 1
       /\ probe.sent = 1
       /\ wire[Len(wire)] = [type |-> "input_audio_buffer.append",
                             audio |-> probe.arg, origin |-> "direct"]

C13_Witness ==
  /\ lastEvent = [type |-> "error", same |-> TRUE]
  /\ probe.evt = "error"
  /\ Handshaken(probe)
  /\ connected
  /\ Appends(wire) = 1

\* C14: an inbound event of a type that is not recognized leaves the socket,
\* connected, sessionId, every counter, the outbound events and the playback
\* queue unchanged.
C14_UnknownEventIgnored ==
  lastEvent.type = "unknown" => lastEvent.same

C14_Witness ==
  /\ lastEvent.type = "unknown"
  /\ connected
  /\ sessionId # 0
  /\ textResponsesReceived > 0
  /\ audioChunksSent > 0

\* C15: a disconnect() call on a session whose socket reference is null (a
\* second call, or a session that never connected) changes no session state
\* and closes nothing; the socket is closed at most once.
C15_DisconnectIdempotent ==
  /\ [](nClose <= 1)
  /\ [][(nDisc' = nDisc + 1 /\ ws = "null") =>
         UNCHANGED <<sessionVars, agentVars, playVars, nClose>>]_vars

C15_Witness ==
  /\ nDisc = 2
  /\ nClose = 1
  /\ readyState = "CLOSED"
  /\ sessionId # 0

\* C16: once AIAgent.disconnect() has been called no further frame is
\* handed to audioSource.captureFrame.
C16_ShutdownDiscardsPlayback ==
  [][(agentPc = "disconnecting" \/ agentPc = "exited") =>
       UNCHANGED published]_vars

\* C17: once the session is closed or failed, no inbound message changes
\* sessionId or a counter or forwards audio to playback, and no capture
\* frame produces a wire event.
C17_NoDispatchAfterClose ==
  [][(SessionClosed \/ SessionFailed) =>
       /\ UNCHANGED <<sessionId, textResponsesReceived, audioChunksReceived,
                      calls, published>>
       /\ CaptureEvents(wire') = CaptureEvents(wire)]_vars

\* C18: a rejected captureFrame is caught inside playAudioInRoom: the
\* process keeps running, the rejected frame is not counted as published,
\* and every response.audio.delta that arrives after a rejection is handed
\* to the transport or is waiting for playout.
C18_RejectionIsolated ==
  /\ agentPc # "crashed"
  /\ \A g \in 1..Len(calls) :
       calls[g].rejBefore => g \in PubFrames \cup WaitingFrames
  /\ audioFramesPublished =
       Cardinality({g \in 1..Len(calls) : calls[g].pc = "done"})

C18_Witness ==
  \E f, g \in 1..Len(calls) :
    /\ f < g
    /\ calls[f].pc = "rejected"
    /\ calls[g].rejBefore
    /\ calls[g].pc = "done"
    /\ audioFramesPublished >= 1

\* C19: resample48to24 returns floor(n/2) samples for an input of n
\* samples, and output sample i is input sample 2*i (0-based).
C19_Decimation ==
  convPc = "resampled" =>
    /\ Len(convOut) = Len(convIn) \div 2
    /\ \A i \in 0..(Len(convOut) - 1) : convOut[i + 1] = convIn[2 * i + 1]

C19_Witness ==
  /\ convPc = "resampled"
  /\ Len(convIn) = 3
  /\ Len(convOut) = 1
  /\ convIn[1] # convIn[2]

\* C20: a capture frame whose sample rate is not twice the target rate
\* produces no wire event.
C20_UnsupportedRateRejected ==
  (convPc = "forwarded" /\ convRate # 2 * SAMPLE_RATE) => ~convSent

\* C21: a response.audio.delta whose decoded length is odd hands no frame
\* to audioSource.captureFrame.
C21_MalformedPayloadRejected ==
  (deltaPc # "ready" /\ Len(delta) % 2 = 1) => deltaPc # "handed"

\* C22: decoding the wire encoding of a sample sequence (base64 of its
\* little-endian bytes, byte pairs read back as Int16) yields the sequence.
C22_WireRoundTrip ==
  convPc = "decoded" => convOut = convIn

C22_Witness ==
  /\ convPc = "decoded"
  /\ Len(convIn) = 4
  /\ convIn[1] = -32768 /\ convIn[2] = 258 /\ convIn[3] = -2
  /\ convOut = convIn

\* C23: a capture frame is forwarded to the session only while a single
\* capture loop exists.
C23_SingleCaptureStream ==
  [][CaptureEvents(wire') > CaptureEvents(wire) => TotalLoops <= 1]_vars

\* C24: once sessionId has been assigned no step changes it.
C24_SessionIdAssignedOnce ==
  [][sessionId # 0 => sessionId' = sessionId]_vars

\* a playAudioInRoom call has not returned yet
PendingCalls == {f \in 1..Len(calls) : calls[f].pc \in {"waiting", "capturing"}}

\* C25: while a playAudioInRoom call has not returned no further inbound
\* event is dispatched, so at most one call is pending.
C25_ReadLoopSuspended ==
  [][PendingCalls # {} =>
       /\ audioChunksReceived' = audioChunksReceived
       /\ Cardinality(PendingCalls) <= 1]_vars

\* C26: a Room exists only after OpenAIRealtimeSession.connect() resolved;
\* when it was rejected no Room is created and AIAgent.connect goes no
\* further than its catch block.
C26_OpenAIBeforeLiveKit ==
  /\ room = "room" => promise = "resolved"
  /\ agentPc \in {"roomConnecting", "discoverWait", "publishing", "running",
                  "disconnecting"} => promise = "resolved"
  /\ promise = "rejected" =>
       /\ room = "null"
       /\ agentPc \in {"awaitOpenAI", "exited"}
       /\ subscribedTracks = {}
       /\ ~audioSource

C26_Witness ==
  /\ promise = "rejected"
  /\ timer = "fired"
  /\ agentPc = "exited"
  /\ room = "null"

\* C27: while playAudioInRoom calls are suspended on waitForPlayout every
\* running capture loop can still take its next frame, and a frame taken
\* then on the open connected socket is converted and written as one
\* append event.
C27_CaptureNotGated ==
  /\ (waiters # <<>> /\ nCalls < MaxSendCalls) =>
       \A p \in Participants :
         loops[p] > 0 => ENABLED (\E d \in CaptureData : CaptureLoop(p, d))
  /\ (probe.waiting > 0 /\ probe.conn /\ probe.rs = "OPEN") =>
       /\ probe.wrote = 1
       /\ probe.sent = 1
       /\ wire[Len(wire)].origin = "capture"
       /\ wire[Len(wire)].audio = probe.arg

C27_Witness ==
  /\ probe.waiting > 0
  /\ waiters # <<>>
  /\ probe.wrote = 1
  /\ CaptureEvents(wire) = 2

\* C28: every step leaves the events already on the socket in place and
\* adds at most one event at the end; the event a capture frame adds carries
\* the payload of the frame just yielded, so the append events of a stream
\* are in the order of its frames.
C28_CaptureToWireOrder ==
  [][/\ Len(wire') \in {Len(wire), Len(wire) + 1}
     /\ \A i \in 1..Len(wire) : wire'[i] = wire[i]
     /\ (Len(wire') > Len(wire) /\ wire'[Len(wire')].origin = "capture") =>
          /\ wire'[Len(wire')].audio = probe'.arg
          /\ nCalls' = nCalls + 1]_vars

C28_Witness ==
  /\ TotalLoops = 1
  /\ CaptureEvents(wire) = 2
  /\ wire[Len(wire)].origin = "capture"
  /\ wire[Len(wire) - 1].origin = "capture"
  /\ wire[Len(wire)].audio # wire[Len(wire) - 1].audio
  /\ wire[Len(wire)].audio = probe.arg
  /\ readyState = "CLOSED"

\* C29: the promise returned by connect() does not stay pending: it is
\* settled once the connection timer has fired, and a pending promise is
\* eventually resolved or rejected.
C29_ConnectSettles ==
  /\ [](timer = "fired" => promise \in {"resolved", "rejected"})
  /\ (promise = "pending") ~> (promise \in {"resolved", "rejected"})

C29_Witness ==
  /\ timer = "fired"
  /\ fire.prom = "pending"
  /\ promise = "rejected"
  /\ readyState = "CLOSED"
  /\ nDisc = 1

\* C30: every playAudioInRoom call that is suspended (on waitForPlayout or
\* in captureFrame) eventually returns, its frame published or its
\* rejection logged.
C30_EnqueueCompletes ==
  \A f \in 1..MaxDeltas :
    (f \in PendingCalls) ~>
      (f <= Len(calls) /\ calls[f].pc \in {"done", "rejected"})

C30_Witness ==
  /\ Len(calls) = 3
  /\ \A f \in 1..3 : calls[f].pc \in {"done", "rejected"}
  /\ published[3].waited
  /\ calls[3].pc = "done"
  /\ calls[1].pc = "rejected"

\* C31: a conversion error thrown for one capture frame is caught inside the
\* iteration: the frame writes nothing, no capture loop ends, and the next
\* frame the stream yields is still taken and, on an open socket, sent.
C31_ConversionFailureIsolated ==
  /\ [][(threw' # threw) =>
         (loops' = loops /\ wire' = wire
            /\ audioChunksSent' = audioChunksSent)]_vars
  /\ [][\A p \in Participants : loops'[p] >= loops[p]]_vars
  /\ []((threw >= 0 /\ nCalls < MaxSendCalls) =>
          \E p \in Participants, d \in CaptureData : ENABLED CaptureLoop(p, d))
  /\ [][(threw >= 0 /\ connected /\ readyState = "OPEN"
           /\ nCalls' = nCalls + 1) =>
         (Appends(wire') = Appends(wire) + 1
            /\ audioChunksSent' = audioChunksSent + 1)]_vars

C31_Witness ==
  /\ threw >= 0
  /\ nCalls > threw
  /\ TotalLoops = 1
  /\ probe.wrote = 1
  /\ wire[Len(wire)].origin = "capture"
  /\ audioChunksSent = nCalls

\* C32: audioChunksSent equals the number of input_audio_buffer.append
\* events written to the socket.
C32_SentMatchesWire ==
  audioChunksSent = Appends(wire)

\* the playAudioInRoom calls whose captureFrame resolved
SettledOk == {f \in 1..Len(calls) : calls[f].pc = "done"}

\* C33: audioFramesPublished never exceeds audioChunksReceived, it counts
\* exactly the frames whose captureFrame succeeded, and neither counter
\* ever decreases.
C33_PublishedWithinReceived ==
  /\ [](audioFramesPublished <= audioChunksReceived)
  /\ [](audioFramesPublished = Cardinality(SettledOk))
  /\ [][audioFramesPublished' >= audioFramesPublished
         /\ audioChunksReceived' >= audioChunksReceived]_vars

C33_Witness ==
  /\ audioChunksReceived = 3
  /\ audioFramesPublished = 1
  /\ \E f \in 1..Len(calls) : calls[f].pc = "rejected"
  /\ PendingCalls = {}

\* C34: connected implies that ws is set, and once disconnect() has
\* discarded a socket connected is false in every later state, whatever
\* event of that socket is delivered.
C34_ConnectedImpliesSocket ==
  /\ connected => ws # "null"
  /\ nClose > 0 => ~connected

C34_Witness ==
  /\ nClose = 1
  /\ ws = "null"
  /\ readyState = "CLOSED"
  /\ probe.rs = "CLOSING"
  /\ ~probe.conn
  /\ lastEvent.type # "none"

\* C37: for each participant identity at most one stats interval is active.
C37_OneMonitorPerIdentity ==
  \A p \in Participants : monitors[p] <= 1

\* C38: when the connect timer fires after connect() resolved, the step
\* changes no session state and the promise stays resolved, whether or
\* not the socket has closed in the meantime.
C38_LateTimerHarmless ==
  [][(timer = "armed" /\ timer' = "fired" /\ promise = "resolved") =>
       UNCHANGED <<ws, readyState, connected, sessionId, audioChunksSent,
                   textResponsesReceived, audioChunksReceived, wire,
                   updatedSeen, promise>>]_vars

C38_Witness ==
  /\ timer = "fired"
  /\ fire.prom = "resolved"
  /\ ~fire.conn
  /\ promise = "resolved"
  /\ ws = "sock"
  /\ readyState = "CLOSED"

\* a connectToRoom call is between its first await and its return
AttemptInFlight ==
  \E a \in 1..MaxAttempts : attemptPc[a] \in {"token", "connecting"}

\* C35: the microphone button is enabled only while room is non-null.
C35_MicNeedsRoom ==
  ~elements.micBtn => clientRoom # 0

\* C36: the connect button is never enabled while a connection attempt is
\* in flight or while the disconnect button is enabled.
C36_SingleConnection ==
  ~elements.connectBtn => (~AttemptInFlight /\ elements.disconnectBtn)

TypeOK ==
  /\ ws \in {"null", "sock"}
  /\ readyState \in {"NONE", "CONNECTING", "OPEN", "CLOSING", "CLOSED"}
  /\ connected \in BOOLEAN
  /\ sessionId \in {0} \cup SessionIds
  /\ promise \in {"none", "pending", "resolved", "rejected"}
  /\ timer \in {"none", "armed", "fired"}
  /\ audioChunksReceived = Len(calls)
  /\ queuedMs >= 0
  /\ receiving \in BOOLEAN
  /\ lastEvent \in [type : {"none", "error", "unknown"}, same : BOOLEAN]
  /\ nDisc \in Nat /\ nClose \in Nat
  /\ silentDrop \in BOOLEAN
  /\ convPc \in {"idle", "ready", "resampled", "forwarded", "decoded"}
  /\ deltaPc \in {"idle", "ready", "handed", "waiting", "dropped"}
  /\ convSent \in BOOLEAN
  /\ threw \in -1..MaxSendCalls
  /\ monitors \in [Participants -> 0..MaxMonitors]
  /\ clientRoom \in 0..MaxAttempts
  /\ roomState \in [1..MaxAttempts ->
       {"none", "connecting", "connected", "closing", "aborted", "closed"}]
  /\ attemptPc \in [1..MaxAttempts ->
       {"none", "token", "connecting", "done", "failed"}]
  /\ elements \in [connectBtn : BOOLEAN, micBtn : BOOLEAN,
                    disconnectBtn : BOOLEAN]
  /\ audioTrack \in BOOLEAN
  /\ micPending \in 0..MaxMicCalls /\ nMic \in 0..MaxMicCalls
====
